---- MODULE Spec2Model ----
(***************************************************************************)
(* State-machine model of package envvar (src/envvar.go): one EnvVarSet,   *)
(* the storage its built-in values alias, and the calls a program makes on *)
(* it.  A Go string is a sequence of one-character strings, so that the    *)
(* name/value split, the boolean and integer grammars and the sort order   *)
(* are computed, not assumed.                                              *)
(*                                                                         *)
(* Every record is written with its fields in the order of their first     *)
(* occurrence in the module, the order in which TLC keeps them, so that    *)
(* TLC's workers never reorder a record they share.                        *)
(***************************************************************************)
EXTENDS Integers, Sequences, FiniteSets, TLC

VARIABLES
    name,           \* EnvVarSet.name
    parsed,         \* EnvVarSet.parsed
    actual,         \* EnvVarSet.actual : name -> *EnvVar
    formal,         \* EnvVarSet.formal : name -> *EnvVar
    errorHandling,  \* EnvVarSet.errorHandling
    output,         \* EnvVarSet.output: the writer, "nil" if none was set
    mem,            \* the storage the values of formal point to, by address
    written,        \* what the call has written, and to which writer
    call            \* the call in progress and how it ended

vars == <<name, parsed, actual, formal, errorHandling, output, mem, written, call>>

(***************************************************************************)
(* Strings                                                                 *)
(***************************************************************************)

\* The byte value of a character: Go compares strings byte by byte.
Ord(c) ==
    CASE c = "-" -> 45
      [] c = "0" -> 48
      [] c = "1" -> 49
      [] c = "2" -> 50
      [] c = "7" -> 55
      [] c = "=" -> 61
      [] c = "A" -> 65
      [] c = "B" -> 66
      [] c = "F" -> 70
      [] c = "Q" -> 81
      [] c = "Z" -> 90
      [] c = "x" -> 120

\* Mutant of StrLess: the order is reversed.
StrLess_reversed(s, t) ==
    \E k \in 1..Len(s) :
        /\ \A i \in 1..(k - 1) : i <= Len(t) /\ s[i] = t[i]
        /\ k > Len(t) \/ Ord(t[k]) < Ord(s[k])

\* s < t for Go strings: the first differing byte decides, a proper prefix
\* is smaller.
RECURSIVE StrLessFrom(_, _, _)
StrLessFrom(s, t, i) ==
    IF i > Len(s) THEN i <= Len(t)
    ELSE IF i > Len(t) THEN FALSE
    ELSE IF s[i] # t[i] THEN Ord(s[i]) < Ord(t[i])
    ELSE StrLessFrom(s, t, i + 1)

StrLess(s, t) == StrLessFrom(s, t, 1)

(***************************************************************************)
(* ErrorHandling                                                           *)
(***************************************************************************)

ContinueOnError == 0
ExitOnError == 1
PanicOnError == 2

Policies == {ContinueOnError, ExitOnError, PanicOnError}

(***************************************************************************)
(* Errors.  NoError is Go's nil error.                                     *)
(***************************************************************************)

NoError == [e |-> "nil"]

\* *strconv.NumError{Func, Num, Err}
NumError(fn, num, err) == [e |-> "NumError", fn |-> fn, num |-> num, err |-> err]

(***************************************************************************)
(* strconv, as the values use it.  Numbers wider than the model checker's  *)
(* integers are sequences of decimal digits, most significant first, with  *)
(* no leading zero (zero is the empty sequence), so that the 32 and 64 bit *)
(* limits are the real ones.                                               *)
(***************************************************************************)

\* The digits of a small natural number.
RECURSIVE DecDigits(_)
DecDigits(n) == IF n = 0 THEN <<>> ELSE Append(DecDigits(n \div 10), n % 10)

\* m * b + carry, taking the digits of m from position i down to 1.
RECURSIVE BigMulAddFrom(_, _, _, _)
BigMulAddFrom(m, b, carry, i) ==
    IF i = 0 THEN DecDigits(carry)
    ELSE LET t == m[i] * b + carry
         IN  Append(BigMulAddFrom(m, b, t \div 10, i - 1), t % 10)

BigMulAdd(m, b, d) == BigMulAddFrom(m, b, d, Len(m))

RECURSIVE BigLessFrom(_, _, _)
BigLessFrom(a, b, i) ==
    IF i > Len(a) THEN FALSE
    ELSE IF a[i] # b[i] THEN a[i] < b[i]
    ELSE BigLessFrom(a, b, i + 1)

BigLess(a, b) ==
    \/ Len(a) < Len(b)
    \/ Len(a) = Len(b) /\ BigLessFrom(a, b, 1)

\* 2^k for the widths the values use (1 << 31, 1 << 32, 1 << 63, 1 << 64).
BigPow2(k) ==
    CASE k = 31 -> <<2, 1, 4, 7, 4, 8, 3, 6, 4, 8>>
      [] k = 32 -> <<4, 2, 9, 4, 9, 6, 7, 2, 9, 6>>
      [] k = 63 -> <<9, 2, 2, 3, 3, 7, 2, 0, 3, 6, 8, 5, 4, 7, 7, 5, 8, 0, 8>>
      [] k = 64 -> <<1, 8, 4, 4, 6, 7, 4, 4, 0, 7, 3, 7, 0, 9, 5, 5, 1, 6, 1, 6>>

\* m - 1 for m > 0, borrowing from position i.
RECURSIVE BigPredFrom(_, _)
BigPredFrom(m, i) ==
    IF m[i] > 0 THEN [m EXCEPT ![i] = m[i] - 1]
    ELSE BigPredFrom([m EXCEPT ![i] = 9], i - 1)

BigPred(m) ==
    LET r == BigPredFrom(m, Len(m))
    IN  IF r[1] = 0 THEN Tail(r) ELSE r

\* The machine integer of a signed number that fits the platform's int.
RECURSIVE BigNegFrom(_, _, _)
BigNegFrom(m, i, acc) ==
    IF i > Len(m) THEN acc ELSE BigNegFrom(m, i + 1, acc * 10 - m[i])

ToInt(v) == IF v.neg THEN BigNegFrom(v.mag, 1, 0) ELSE 0 - BigNegFrom(v.mag, 1, 0)

\* strconv.IntSize: the width of int and uint on the platform the tests
\* of the overflow behaviour are written for.
IntSize == 32

\* The value of a digit character in bases up to 16; 99 for any other byte.
DigitVal(c) ==
    CASE c = "0" -> 0 [] c = "1" -> 1 [] c = "2" -> 2 [] c = "3" -> 3
      [] c = "4" -> 4 [] c = "5" -> 5 [] c = "6" -> 6 [] c = "7" -> 7
      [] c = "8" -> 8 [] c = "9" -> 9
      [] c \in {"a", "A"} -> 10 [] c \in {"b", "B"} -> 11
      [] c \in {"c", "C"} -> 12 [] c \in {"d", "D"} -> 13
      [] c \in {"e", "E"} -> 14 [] c \in {"f", "F"} -> 15
      [] OTHER -> 99

\* The digit loop of strconv.ParseUint: a byte that is no digit of the base
\* is a syntax error with value 0; a value past 2^bitSize - 1 is a range
\* error with that maximum, reported where it is first exceeded.
\* ParseDigitsNext is the rest of one round, n1 being n * base + digit.
RECURSIVE ParseDigits(_, _, _, _, _)
RECURSIVE ParseDigitsNext(_, _, _, _, _)
ParseDigitsNext(s, i, base, bitSize, n1) ==
    IF BigLess(n1, BigPow2(bitSize))
    THEN ParseDigits(s, i + 1, base, bitSize, n1)
    ELSE [err |-> "value out of range", mag |-> BigPred(BigPow2(bitSize))]

ParseDigits(s, i, base, bitSize, n) ==
    IF i > Len(s) THEN [err |-> "nil", mag |-> n]
    ELSE IF DigitVal(s[i]) >= base THEN [err |-> "invalid syntax", mag |-> <<>>]
    ELSE ParseDigitsNext(s, i, base, bitSize, BigMulAdd(n, base, DigitVal(s[i])))

\* The base a nonempty s announces with base 0 (0x or 0X before at least
\* one more byte: 16, another leading 0: 8, anything else: 10) and the
\* number of bytes the announcement takes.  (The character set of the
\* model has no underscore and no 0b or 0o prefix.)
BasePrefix(s) ==
    IF s[1] # "0" THEN [base |-> 10, len |-> 0]
    ELSE IF Len(s) >= 3 /\ s[2] \in {"x", "X"} THEN [base |-> 16, len |-> 2]
    ELSE [base |-> 8, len |-> 1]

\* strconv.ParseUint(s, 0, bitSize)
ParseUint(s, bitSize) ==
    IF Len(s) = 0 THEN [err |-> "invalid syntax", mag |-> <<>>]
    ELSE ParseDigits(s, BasePrefix(s).len + 1, BasePrefix(s).base, bitSize, <<>>)

\* The end of strconv.ParseInt: u is what ParseUint made of the digits and
\* cutoff is 1 << (bitSize - 1).  A syntax error gives 0, a magnitude past
\* the signed range gives the nearest bound and a range error.
ParseIntRange(s, neg, u, cutoff) ==
    IF u.err = "invalid syntax"
    THEN [err |-> NumError("ParseInt", s, "invalid syntax"),
          v |-> [neg |-> FALSE, mag |-> <<>>]]
    ELSE IF ~neg /\ ~BigLess(u.mag, cutoff)
    THEN [err |-> NumError("ParseInt", s, "value out of range"),
          v |-> [neg |-> FALSE, mag |-> BigPred(cutoff)]]
    ELSE IF neg /\ BigLess(cutoff, u.mag)
    THEN [err |-> NumError("ParseInt", s, "value out of range"),
          v |-> [neg |-> TRUE, mag |-> cutoff]]
    ELSE [err |-> NoError, v |-> [neg |-> neg /\ u.mag # <<>>, mag |-> u.mag]]

\* strconv.ParseInt(s, 0, bitSize): an optional sign, then ParseUint.
ParseInt(s, bitSize) ==
    IF Len(s) = 0
    THEN [err |-> NumError("ParseInt", s, "invalid syntax"), v |-> [neg |-> FALSE, mag |-> <<>>]]
    ELSE ParseIntRange(s, s[1] = "-",
                       ParseUint(IF s[1] \in {"+", "-"} THEN Tail(s) ELSE s, bitSize),
                       BigPow2(bitSize - 1))

\* Mutant of ParseBool: any capitalisation of true and false is accepted.
ParseBool_anyCase(s) ==
    IF s \in {<<"1">>, <<"t">>, <<"T">>} \/
       (Len(s) = 4 /\ s[1] \in {"t", "T"} /\ s[2] \in {"r", "R"}
                   /\ s[3] \in {"u", "U"} /\ s[4] \in {"e", "E"})
    THEN [err |-> NoError, v |-> TRUE]
    ELSE IF s \in {<<"0">>, <<"f">>, <<"F">>} \/
            (Len(s) = 5 /\ s[1] \in {"f", "F"} /\ s[2] \in {"a", "A"}
                        /\ s[3] \in {"l", "L"} /\ s[4] \in {"s", "S"}
                        /\ s[5] \in {"e", "E"})
    THEN [err |-> NoError, v |-> FALSE]
    ELSE [err |-> NumError("ParseBool", s, "invalid syntax"), v |-> FALSE]

\* strconv.ParseBool: twelve tokens, anything else is a syntax error with
\* value false.
ParseBool(s) ==
    IF s \in {<<"1">>, <<"t">>, <<"T">>, <<"T", "R", "U", "E">>,
              <<"t", "r", "u", "e">>, <<"T", "r", "u", "e">>}
    THEN [err |-> NoError, v |-> TRUE]
    ELSE IF s \in {<<"0">>, <<"f">>, <<"F">>, <<"F", "A", "L", "S", "E">>,
                   <<"f", "a", "l", "s", "e">>, <<"F", "a", "l", "s", "e">>}
    THEN [err |-> NoError, v |-> FALSE]
    ELSE [err |-> NumError("ParseBool", s, "invalid syntax"), v |-> FALSE]

(***************************************************************************)
(* Bounds of the model and the inputs the calls are drawn from.            *)
(***************************************************************************)

MaxEnvLen == 3     \* entries in one Parse

\* Names a program registers, and the address of the variable it keeps for
\* each; Spare is the address of one more variable. Names are the names of
\* the programs that parse, VisitNames those of the programs that visit.
NameList == << <<"A">>, <<"Z">>, <<"A", "B">>, <<"B">> >>

Names == {NameList[1], NameList[2]}

VisitNames == {NameList[i] : i \in DOMAIN NameList}

\* Names of the programs whose Parse is given raw entries of every shape:
\* a plain name, a name that begins with the separator, the empty name.
EntryNameList == << <<"A">>, <<"=", "A">>, <<>> >>

EntryNames == {EntryNameList[i] : i \in DOMAIN EntryNameList}

SlotOf(nm) ==
    CHOOSE i \in DOMAIN (NameList \o Tail(EntryNameList)) :
        (NameList \o Tail(EntryNameList))[i] = nm

Spare == 0

\* Names given to a set by NewEnvVarSet or Init.
SetNames == {"", "test"}

\* Texts handed to Set.
Texts == {<<"1">>, <<"x">>}

\* Raw entries handed to Parse: for names a program registers, with texts
\* every built-in value accepts and texts they refuse, and for a foreign
\* name.
Entries ==
    { <<"A", "=", "1">>, <<"A", "=", "x">>, <<"Z", "=", "1">>, <<"Q", "=", "1">> }

RECURSIVE SeqsUpTo(_, _)
SeqsUpTo(S, n) ==
    IF n = 0 THEN {<<>>}
    ELSE LET shorter == SeqsUpTo(S, n - 1)
         IN  shorter \cup {Append(q, x) : q \in {r \in shorter : Len(r) = n - 1}, x \in S}

Environments == SeqsUpTo(Entries, MaxEnvLen)

\* Texts at the bounds of int, uint, int64 and uint64, one below and one
\* past each.
IntTexts ==
    { <<"0">>, <<"2", "1", "4", "7", "4", "8", "3", "6", "4", "7">>,
      <<"2", "1", "4", "7", "4", "8", "3", "6", "4", "8">>,
      <<"-", "2", "1", "4", "7", "4", "8", "3", "6", "4", "8">>,
      <<"-", "2", "1", "4", "7", "4", "8", "3", "6", "4", "9">>,
      <<"4", "2", "9", "4", "9", "6", "7", "2", "9", "5">>,
      <<"4", "2", "9", "4", "9", "6", "7", "2", "9", "6">>,
      <<"9", "2", "2", "3", "3", "7", "2", "0", "3", "6", "8", "5", "4", "7", "7", "5", "8", "0", "7">>,
      <<"9", "2", "2", "3", "3", "7", "2", "0", "3", "6", "8", "5", "4", "7", "7", "5", "8", "0", "8">>,
      <<"-", "9", "2", "2", "3", "3", "7", "2", "0", "3", "6", "8", "5", "4", "7", "7", "5", "8", "0", "8">>,
      <<"-", "9", "2", "2", "3", "3", "7", "2", "0", "3", "6", "8", "5", "4", "7", "7", "5", "8", "0", "9">>,
      <<"1", "8", "4", "4", "6", "7", "4", "4", "0", "7", "3", "7", "0", "9", "5", "5", "1", "6", "1", "5">>,
      <<"1", "8", "4", "4", "6", "7", "4", "4", "0", "7", "3", "7", "0", "9", "5", "5", "1", "6", "1", "6">> }

\* Texts for a bool: the tokens strconv.ParseBool knows, and others: the
\* empty text, other capitalisations, other numbers and words.
BoolTexts ==
    { <<"1">>, <<"t">>, <<"T">>, <<"t", "r", "u", "e">>,
      <<"T", "R", "U", "E">>, <<"T", "r", "u", "e">>, <<"0">>,
      <<"f">>, <<"F">>, <<"f", "a", "l", "s", "e">>,
      <<"F", "A", "L", "S", "E">>, <<"F", "a", "l", "s", "e">>,
      <<>>, <<"T", "r", "U", "e">>, <<"t", "R", "U", "E">>,
      <<"f", "A", "L", "S", "E">>, <<"2">>, <<"y">>, <<"o", "n">>,
      <<"0", "1">>, <<"t", "t">> }

KindTexts == IntTexts \cup BoolTexts

\* The entry name=text of the environment.
Entry(nm, text) == nm \o <<"=">> \o text

MaxRawLen == 2     \* entries in one Parse of raw entries
MaxUserLen == 2    \* texts a user-defined value accumulates

\* Raw entries of every shape: empty, a bare name, a separator at index 0
\* only, an empty value, a value that holds the separator, a name that
\* begins with the separator.
RawEntries ==
    { <<>>, <<"A">>, <<"=", "A">>, <<"A", "=">>,
      <<"A", "=", "b", "=", "c">>, <<"=", "A", "=", "1">> }

RawEnvironments == SeqsUpTo(RawEntries, MaxRawLen)

(***************************************************************************)
(* Values.  A cell is the storage a built-in Value points to: a bool or an *)
(* int of the caller's.                                                    *)
(***************************************************************************)

\* newBoolValue: *p = val
newBoolValue(val, old) == [val |-> val, kind |-> "bool"]

\* boolValue.Set: the parser's value r.v is stored whatever the error.
boolValue_Store(c, r) == [err |-> r.err, cell |-> [c EXCEPT !.val = r.v]]

boolValue_Set(c, s) == boolValue_Store(c, ParseBool(s))

\* Mutant of newIntValue: the variable keeps what it held.
newIntValue_keepsOld(val, old) == [val |-> old, kind |-> "int"]

\* newIntValue: *p = val
newIntValue(val, old) == [val |-> val, kind |-> "int"]

\* Mutant of intValue_Store: on an error the variable is left as it was.
intValue_Store_keeps(c, r) ==
    [err |-> r.err, cell |-> IF r.err = NoError THEN [c EXCEPT !.val = ToInt(r.v)] ELSE c]

\* intValue.Set: the parser's value r.v is stored whatever the error.
intValue_Store(c, r) == [err |-> r.err, cell |-> [c EXCEPT !.val = ToInt(r.v)]]

intValue_Set(c, s) == intValue_Store(c, ParseInt(s, IntSize))

\* newInt64Value: *p = val.  An int64 is kept as sign and decimal digits.
newInt64Value(val, old) == [val |-> val, kind |-> "int64"]

\* int64Value.Set: the parser's value r.v is stored whatever the error.
int64Value_Store(c, r) == [err |-> r.err, cell |-> [c EXCEPT !.val = r.v]]

int64Value_Set(c, s) == int64Value_Store(c, ParseInt(s, 64))

\* The error strconv.ParseUint returns for the outcome r of its digit loop.
ParseUint_err(s, r) ==
    IF r.err = "nil" THEN NoError ELSE NumError("ParseUint", s, r.err)

\* newUintValue: *p = val.  A uint is kept as its decimal digits.
newUintValue(val, old) == [val |-> val, kind |-> "uint"]

\* uintValue.Set: the parser's value r.mag is stored whatever the error.
uintValue_Store(c, s, r) == [err |-> ParseUint_err(s, r), cell |-> [c EXCEPT !.val = r.mag]]

\* Mutant of uintValue_Set: a uint is parsed as 64 bits wide.
uintValue_Set_wide(c, s) == uintValue_Store(c, s, ParseUint(s, 64))

uintValue_Set(c, s) == uintValue_Store(c, s, ParseUint(s, IntSize))

\* newUint64Value: *p = val
newUint64Value(val, old) == [val |-> val, kind |-> "uint64"]

uint64Value_Set(c, s) == uintValue_Store(c, s, ParseUint(s, 64))

\* newStringValue: *p = val
newStringValue(val, old) == [val |-> val, kind |-> "string"]

\* stringValue.Set: the text itself, never an error.
stringValue_Set(c, s) == [err |-> NoError, cell |-> [c EXCEPT !.val = s]]

\* userVar.Set of the tests: *uv = append(*uv, value), never an error.
userVar_Set(c, s) == [err |-> NoError, cell |-> [c EXCEPT !.val = Append(@, s)]]

\* Value.Set, dispatched on the dynamic type.
Value_Set(c, s) ==
    CASE c.kind = "bool"   -> boolValue_Set(c, s)
      [] c.kind = "int"    -> intValue_Set(c, s)
      [] c.kind = "int64"  -> int64Value_Set(c, s)
      [] c.kind = "uint"   -> uintValue_Set(c, s)
      [] c.kind = "uint64" -> uint64Value_Set(c, s)
      [] c.kind = "string" -> stringValue_Set(c, s)
      [] c.kind = "user"   -> userVar_Set(c, s)

(***************************************************************************)
(* The set                                                                 *)
(***************************************************************************)

\* &EnvVar{name, value}: value is the address of the cell.
EnvVar(nm, value) == [Name |-> nm, Value |-> value]

EmptyMap == [n \in {} |-> EnvVar(<<>>, 0)]

\* m[k] = v
MapPut(m, k, v) == [n \in DOMAIN m \cup {k} |-> IF n = k THEN v ELSE m[n]]

NoCall == [op |-> "none"]

Ok == [kind |-> "ok"]
Returned(err) == IF err = NoError THEN Ok ELSE [err |-> err, kind |-> "error"]
Panicked(v) == [v |-> v, kind |-> "panic"]
Exited(code) == [kind |-> "exit", code |-> code]

\* The caller is between two calls.
AtCaller == call.op = "none"

\* NewEnvVarSet(name, errorHandling); the zero EnvVarSet is the case of
\* the empty name and ContinueOnError.
Init ==
    /\ name \in SetNames
    /\ errorHandling \in Policies
    /\ parsed = FALSE
    /\ actual = EmptyMap
    /\ formal = EmptyMap
    /\ output = "nil"
    /\ mem = <<>>
    /\ written = <<>>
    /\ call = NoCall

IsNil(err) == err.e = "nil"

\* EnvVarSet.Init(name, errorHandling)
InitSet(nm, eh) ==
    /\ AtCaller
    /\ name' = nm
    /\ errorHandling' = eh
    /\ call' = [op |-> "Init", ret |-> Ok]
    /\ UNCHANGED <<parsed, actual, formal, output, mem, written>>

\* EnvVarSet.SetOutput(output)
SetOutput(w) ==
    /\ AtCaller
    /\ output' = w
    /\ call' = [op |-> "SetOutput", ret |-> Ok]
    /\ UNCHANGED <<name, parsed, actual, formal, errorHandling, mem, written>>

\* EnvVarSet.out(): os.Stderr unless a writer was set.
out == IF output = "nil" THEN "os.Stderr" ELSE output

\* fmt.Fprintln(evs.out(), msg), appended to what the call wrote before.
Fprintln(w, msg) == Append(w, [msg |-> msg, to |-> out])

\* sort.StringSlice.Sort: ascending byte order.
RECURSIVE SortStrings(_)
SortStrings(S) ==
    IF S = {} THEN <<>>
    ELSE LET least == CHOOSE x \in S : \A y \in S \ {x} : StrLess(x, y)
         IN  <<least>> \o SortStrings(S \ {least})

\* sortEnvVars: the Names of the map's records, sorted, then looked up.
sortEnvVars(envVars) ==
    LET list == SortStrings({envVars[k].Name : k \in DOMAIN envVars})
    IN  [i \in 1..Len(list) |-> envVars[list[i]]]

\* EnvVarSet.VisitAll(fn): what fn is called with, in order.
VisitAll ==
    /\ AtCaller
    /\ call' = [op |-> "VisitAll", ret |-> Ok, seen |-> sortEnvVars(formal)]
    /\ UNCHANGED <<name, parsed, actual, formal, errorHandling, output, mem, written>>

\* EnvVarSet.Visit(fn): what fn is called with, in order.
Visit ==
    /\ AtCaller
    /\ call' = [op |-> "Visit", ret |-> Ok, seen |-> sortEnvVars(actual)]
    /\ UNCHANGED <<name, parsed, actual, formal, errorHandling, output, mem, written>>

\* EnvVarSet.Lookup(name): evs.formal[name], nil if none.
NilEnvVar == [nil |-> TRUE]

Lookup(nm) ==
    /\ AtCaller
    /\ call' = [name |-> nm, op |-> "Lookup", ret |-> Ok,
                found |-> nm \in DOMAIN formal,
                envVar |-> IF nm \in DOMAIN formal THEN formal[nm] ELSE NilEnvVar]
    /\ UNCHANGED <<name, parsed, actual, formal, errorHandling, output, mem, written>>

\* EnvVarSet.NEnvVar(): len(evs.actual)
NEnvVar ==
    /\ AtCaller
    /\ call' = [n |-> Cardinality(DOMAIN actual), op |-> "NEnvVar", ret |-> Ok]
    /\ UNCHANGED <<name, parsed, actual, formal, errorHandling, output, mem, written>>

\* EnvVarSet.Parsed()
Parsed ==
    /\ AtCaller
    /\ call' = [parsed |-> parsed, op |-> "Parsed", ret |-> Ok]
    /\ UNCHANGED <<name, parsed, actual, formal, errorHandling, output, mem, written>>

\* The message of a rejected registration (fmt.Sprintf in Var).
Redefined(setName, nm) ==
    IF setName = ""
    THEN [e |-> "redefined", text |-> <<"EnvVar redefined: ", nm>>]
    ELSE [e |-> "redefined", text |-> <<setName, " sets EnvVar redefined: ", nm>>]

\* Mutant of Var: a name already in formal is bound anew.
Var_rebinds(value, nm) ==
    [formal  |-> MapPut(formal, nm, EnvVar(nm, value)),
     written |-> written,
     ret     |-> Ok]

\* EnvVarSet.Var(value, name), value being the address of the cell: a name
\* already in formal is reported on the sink and panics, before formal is
\* touched.
Var(value, nm) ==
    IF nm \in DOMAIN formal
    THEN [formal  |-> formal,
          written |-> Fprintln(written, Redefined(name, nm)),
          ret     |-> Panicked(Redefined(name, nm))]
    ELSE [formal  |-> MapPut(formal, nm, EnvVar(nm, value)),
          written |-> written,
          ret     |-> Ok]

\* A registration: the value is built at p, storage of the caller's that no
\* record points to (the variable kept for the name, or the spare one when
\* that is taken); its content is cell from then on. Then it is handed to
\* Var. mem keeps the storage the records of formal point to.
Register(c, cell) ==
    /\ AtCaller
    /\ \E p \in {IF SlotOf(c.name) \in DOMAIN mem THEN Spare ELSE SlotOf(c.name)} :
       \E r \in {Var(p, c.name)} :
           /\ formal' = r.formal
           /\ written' = r.written
           /\ mem' = IF r.ret.kind = "ok" THEN MapPut(mem, p, cell) ELSE mem
           /\ call' = [c EXCEPT !.ret = r.ret, !.p = p, !.cell = cell]
    /\ UNCHANGED <<name, parsed, actual, errorHandling, output>>

\* EnvVarSet.BoolVar(p, name, value), *p holding old; EnvVarSet.Bool is the
\* case of a new(bool), whose old content is false.
BoolVar(nm, value, old) ==
    Register([name |-> nm, cell |-> 0, value |-> value, op |-> "BoolVar", ret |-> Ok, p |-> 0],
             newBoolValue(value, old))

\* EnvVarSet.IntVar(p, name, value), *p holding old; EnvVarSet.Int is the
\* case of a new(int), whose old content is 0.
IntVar(nm, value, old) ==
    Register([name |-> nm, cell |-> 0, value |-> value, op |-> "IntVar", ret |-> Ok, p |-> 0],
             newIntValue(value, old))

\* EnvVarSet.Int64Var(p, name, value)
Int64Var(nm, value, old) ==
    Register([name |-> nm, cell |-> 0, value |-> value, op |-> "Int64Var", ret |-> Ok, p |-> 0],
             newInt64Value(value, old))

\* EnvVarSet.UintVar(p, name, value)
UintVar(nm, value, old) ==
    Register([name |-> nm, cell |-> 0, value |-> value, op |-> "UintVar", ret |-> Ok, p |-> 0],
             newUintValue(value, old))

\* EnvVarSet.Uint64Var(p, name, value)
Uint64Var(nm, value, old) ==
    Register([name |-> nm, cell |-> 0, value |-> value, op |-> "Uint64Var", ret |-> Ok, p |-> 0],
             newUint64Value(value, old))

\* EnvVarSet.StringVar(p, name, value)
StringVar(nm, value, old) ==
    Register([name |-> nm, cell |-> 0, value |-> value, op |-> "StringVar", ret |-> Ok, p |-> 0],
             newStringValue(value, old))

\* EnvVarSet.Var(&uv, name) for a userVar holding old: the default is what
\* the variable holds.
userVar_Var(nm, old) ==
    Register([name |-> nm, cell |-> 0, value |-> old, op |-> "Var", ret |-> Ok, p |-> 0],
             [val |-> old, kind |-> "user"])

\* fmt.Errorf("no such environment variable %v", name)
NoSuch(nm) == [name |-> nm, e |-> "no such environment variable"]

\* Mutant of Set_value: a failed Set takes the name out of actual.
Set_value_unsets(nm, envVar, r) ==
    [actual |-> IF IsNil(r.err) THEN MapPut(actual, nm, envVar)
                ELSE [n \in DOMAIN actual \ {nm} |-> actual[n]],
     mem    |-> [mem EXCEPT ![envVar.Value] = r.cell],
     ret    |-> Returned(r.err)]

\* Mutant of Set_value: the name is added to actual whatever the error.
Set_value_always(nm, envVar, r) ==
    [actual |-> MapPut(actual, nm, envVar),
     mem    |-> [mem EXCEPT ![envVar.Value] = r.cell],
     ret    |-> Returned(r.err)]

\* Mutant of Set_value: an error is handled as the policy of the set says.
Set_value_byPolicy(nm, envVar, r) ==
    [actual |-> IF IsNil(r.err) THEN MapPut(actual, nm, envVar) ELSE actual,
     mem    |-> [mem EXCEPT ![envVar.Value] = r.cell],
     ret    |-> IF IsNil(r.err) \/ errorHandling = ContinueOnError THEN Returned(r.err)
                ELSE IF errorHandling = ExitOnError THEN Exited(2)
                ELSE Panicked(r.err)]

\* The end of EnvVarSet.Set: r is what the value's Set returned, after it
\* has written its storage.
Set_value(nm, envVar, r) ==
    [actual |-> IF IsNil(r.err) THEN MapPut(actual, nm, envVar) ELSE actual,
     mem    |-> [mem EXCEPT ![envVar.Value] = r.cell],
     ret    |-> Returned(r.err)]

\* Mutant of Set: a name that is not registered is recorded as set.
Set_anyName(nm, value) ==
    IF nm \notin DOMAIN formal
    THEN [actual |-> MapPut(actual, nm, EnvVar(nm, Spare)), mem |-> mem, ret |-> Ok]
    ELSE Set_value(nm, formal[nm], Value_Set(mem[formal[nm].Value], value))

\* EnvVarSet.Set(name, value)
Set(nm, value) ==
    IF nm \notin DOMAIN formal
    THEN [actual |-> actual, mem |-> mem, ret |-> Returned(NoSuch(nm))]
    ELSE Set_value(nm, formal[nm], Value_Set(mem[formal[nm].Value], value))

SetCall(nm, value) ==
    /\ AtCaller
    /\ \E r \in {Set(nm, value)} :
           /\ actual' = r.actual
           /\ mem' = r.mem
           /\ call' = [name |-> nm, value |-> value, op |-> "Set", ret |-> r.ret]
    /\ UNCHANGED <<name, parsed, formal, errorHandling, output, written>>

\* The scan of parseOne: the first '=' at index 1 or later (0-based)
\* separates name and value; without one both stay empty.
RECURSIVE SplitFrom(_, _)
SplitFrom(s, i) ==
    IF i > Len(s) THEN [name |-> <<>>, value |-> <<>>]
    ELSE IF s[i] = "="
    THEN [name |-> SubSeq(s, 1, i - 1), value |-> SubSeq(s, i + 1, Len(s))]
    ELSE SplitFrom(s, i + 1)

\* Mutant of Split: the scan starts at the first byte.
Split_fromFirst(s) == SplitFrom(s, 1)

Split(s) == SplitFrom(s, 2)

\* fmt.Errorf("invalid value %q for env var %s: %v", value, name, err)
InvalidValue(value, nm, err) ==
    [name |-> nm, e |-> "invalid value", value |-> value, cause |-> err]

\* Mutant of failf: the error is returned without being printed.
failf_silent(evs, err) == [err |-> err, evs |-> evs]

\* EnvVarSet.failf: the error is printed to the sink and returned.
failf(evs, err) == [err |-> err, evs |-> [evs EXCEPT !.written = Fprintln(@, err)]]

\* The end of EnvVarSet.parseOne: r is what the value's Set returned, after
\* it has written its storage.
\* Mutant of parseOne_value: an entry for a name that is already set is
\* skipped.
parseOne_value_firstWins(evs, kv, envVar, r) ==
    IF kv.name \in DOMAIN evs.actual
    THEN [err |-> NoError, evs |-> evs]
    ELSE IF ~IsNil(r.err)
    THEN failf([evs EXCEPT !.mem[envVar.Value] = r.cell], InvalidValue(kv.value, kv.name, r.err))
    ELSE [err |-> NoError,
          evs |-> [evs EXCEPT !.mem[envVar.Value] = r.cell, !.actual = MapPut(@, kv.name, envVar)]]

parseOne_value(evs, kv, envVar, r) ==
    IF ~IsNil(r.err)
    THEN failf([evs EXCEPT !.mem[envVar.Value] = r.cell],
               InvalidValue(kv.value, kv.name, r.err))
    ELSE [err |-> NoError,
          evs |-> [evs EXCEPT !.mem[envVar.Value] = r.cell,
                              !.actual = MapPut(@, kv.name, envVar)]]

\* Mutant of parseOne_entry: a name that is not registered is an error.
parseOne_entry_strict(evs, kv) ==
    IF kv.name \notin DOMAIN formal
    THEN failf(evs, NoSuch(kv.name))
    ELSE parseOne_value(evs, kv, formal[kv.name],
                        Value_Set(evs.mem[formal[kv.name].Value], kv.value))

\* EnvVarSet.parseOne after the scan, kv being the name and the value.
parseOne_entry(evs, kv) ==
    IF kv.name \notin DOMAIN formal
    THEN [err |-> NoError, evs |-> evs]
    ELSE parseOne_value(evs, kv, formal[kv.name],
                        Value_Set(evs.mem[formal[kv.name].Value], kv.value))

\* EnvVarSet.parseOne on the fields a parse changes.
parseOne(evs, envString) == parseOne_entry(evs, Split(envString))

\* Mutant of ParseFrom: under ContinueOnError the loop goes on after a
\* failing entry and returns the first failure at the end.
RECURSIVE ParseFrom_goOn(_, _, _)
RECURSIVE ParseFrom_goOnEntry(_, _, _)
ParseFrom_goOnEntry(r, environment, i) ==
    IF IsNil(r.err) THEN ParseFrom_goOn(r.evs, environment, i + 1)
    ELSE CASE errorHandling = ContinueOnError ->
                [ParseFrom_goOn(r.evs, environment, i + 1) EXCEPT !.ret = Returned(r.err)]
           [] errorHandling = ExitOnError ->
                [ret |-> Exited(2), evs |-> r.evs]
           [] errorHandling = PanicOnError ->
                [ret |-> Panicked(r.err), evs |-> r.evs]

ParseFrom_goOn(evs, environment, i) ==
    IF i > Len(environment) THEN [ret |-> Ok, evs |-> evs]
    ELSE ParseFrom_goOnEntry(parseOne(evs, environment[i]), environment, i)

\* The loop of EnvVarSet.Parse from entry i on; ParseFrom_entry is the
\* round of entry i, r being what parseOne returned for it. os.Exit and
\* panic end the call where they happen.
RECURSIVE ParseFrom(_, _, _)
RECURSIVE ParseFrom_entry(_, _, _)
ParseFrom_entry(r, environment, i) ==
    IF ~IsNil(r.err)
    THEN CASE errorHandling = ContinueOnError ->
                [ret |-> Returned(r.err), evs |-> r.evs]
           [] errorHandling = ExitOnError ->
                [ret |-> Exited(2), evs |-> r.evs]
           [] errorHandling = PanicOnError ->
                [ret |-> Panicked(r.err), evs |-> r.evs]
           [] OTHER -> ParseFrom(r.evs, environment, i + 1)
    ELSE ParseFrom(r.evs, environment, i + 1)

ParseFrom(evs, environment, i) ==
    IF i > Len(environment) THEN [ret |-> Ok, evs |-> evs]
    ELSE ParseFrom_entry(parseOne(evs, environment[i]), environment, i)

\* Mutant of Parse: parsed is set when the pass has succeeded.
Parse_flagOnSuccess(environment) ==
    [parsed |-> parsed \/
                 ParseFrom([actual |-> actual, mem |-> mem, written |-> written],
                           environment, 1).ret.kind = "ok"] @@
    ParseFrom([actual |-> actual, mem |-> mem, written |-> written], environment, 1)

\* EnvVarSet.Parse(environment): parsed is set before the first entry.
Parse(environment) ==
    [parsed |-> TRUE] @@
    ParseFrom([actual |-> actual, mem |-> mem, written |-> written], environment, 1)

ParseCall(environment) ==
    /\ AtCaller
    /\ \E r \in {Parse(environment)} :
           /\ parsed' = r.parsed
           /\ actual' = r.evs.actual
           /\ mem' = r.evs.mem
           /\ written' = r.evs.written
           /\ call' = [op |-> "Parse", ret |-> r.ret, environment |-> environment]
    /\ UNCHANGED <<name, formal, errorHandling, output>>

\* The call is over: it returned, or its panic was recovered by the
\* caller, who has read what the writer received. After os.Exit there is
\* no caller to return to.
Return ==
    /\ call.op # "none"
    /\ call.ret.kind # "exit"
    /\ call' = NoCall
    /\ written' = <<>>
    /\ UNCHANGED <<name, parsed, actual, formal, errorHandling, output, mem>>

Next ==
    \/ \E nm \in SetNames, eh \in Policies : InitSet(nm, eh)
    \/ \E w \in {"nil", "w"} : SetOutput(w)
    \/ \E nm \in Names, value \in BOOLEAN, old \in BOOLEAN : BoolVar(nm, value, old)
    \/ \E nm \in Names, value \in {5}, old \in {0, 7} : IntVar(nm, value, old)
    \/ \E nm \in Names, value \in Texts : SetCall(nm, value)
    \/ \E environment \in Environments : ParseCall(environment)
    \/ \E nm \in Names : Lookup(nm)
    \/ Visit
    \/ VisitAll
    \/ NEnvVar
    \/ Parsed
    \/ Return

Spec == Init /\ [][Next]_vars

\* The programs that register, set and visit, over the larger pool of names.
NextVisit ==
    \/ \E nm \in VisitNames, value \in BOOLEAN : BoolVar(nm, value, FALSE)
    \/ \E nm \in VisitNames : SetCall(nm, <<"1">>)
    \/ Visit
    \/ VisitAll
    \/ Return

SpecVisit == Init /\ [][NextVisit]_vars

\* A user-defined value of the tests grows with every Set: Parse is taken
\* while each has room for the entries.
UserRoom(environment) ==
    \A p \in DOMAIN mem :
        mem[p].kind = "user" => Len(mem[p].val) + Len(environment) <= MaxUserLen

ParseEntries(environment) == UserRoom(environment) /\ ParseCall(environment)

\* Programs that register strings, bools and a user-defined value under
\* names of every shape and parse raw entries of every shape.
NextEntries ==
    \/ \E nm \in EntryNames : StringVar(nm, <<"x">>, <<>>)
    \/ \E nm \in EntryNames \ {EntryNameList[1]} : BoolVar(nm, TRUE, FALSE)
    \/ \E nm \in {EntryNameList[1]} : userVar_Var(nm, <<>>)
    \/ \E environment \in RawEnvironments : ParseEntries(environment)
    \/ Return

\* userVars.Init("test", ...) of the tests, under each policy.
InitEntries == Init /\ name = "test"

SpecEntries == InitEntries /\ [][NextEntries]_vars

\* Programs that register one variable of a built-in bool or integer type
\* and hand it texts through Set and through Parse.
NextKinds ==
    \/ \E nm \in {NameList[1]}, value \in BOOLEAN : BoolVar(nm, value, FALSE)
    \/ \E nm \in {NameList[1]} : IntVar(nm, 5, 0)
    \/ \E nm \in {NameList[1]} :
           Int64Var(nm, [neg |-> FALSE, mag |-> <<5>>], [neg |-> FALSE, mag |-> <<>>])
    \/ \E nm \in {NameList[1]} : UintVar(nm, <<5>>, <<>>)
    \/ \E nm \in {NameList[1]} : Uint64Var(nm, <<5>>, <<>>)
    \/ \E nm \in {NameList[1]}, value \in KindTexts : SetCall(nm, value)
    \/ \E nm \in {NameList[1]}, value \in KindTexts : ParseCall(<<Entry(nm, value)>>)
    \/ Return

SpecKinds == Init /\ [][NextKinds]_vars

\* var EnvVars = NewEnvVarSet(os.Args[0], ExitOnError): the default set
\* when the program starts.
InitEnvVars ==
    /\ name = "os.Args[0]"
    /\ errorHandling = ExitOnError
    /\ parsed = FALSE
    /\ actual = EmptyMap
    /\ formal = EmptyMap
    /\ output = "nil"
    /\ mem = <<>>
    /\ written = <<>>
    /\ call = NoCall

\* Mutant of ResetForTesting: only the policy is replaced.
ResetForTesting_policyOnly ==
    /\ AtCaller
    /\ errorHandling' = ContinueOnError
    /\ call' = [op |-> "ResetForTesting", ret |-> Ok]
    /\ UNCHANGED <<name, parsed, actual, formal, output, mem, written>>

\* ResetForTesting: EnvVars = NewEnvVarSet(os.Args[0], ContinueOnError).
\* The variables of the program stay as they are; no record points to them.
ResetForTesting ==
    /\ AtCaller
    /\ name' = "os.Args[0]"
    /\ errorHandling' = ContinueOnError
    /\ parsed' = FALSE
    /\ actual' = EmptyMap
    /\ formal' = EmptyMap
    /\ output' = "nil"
    /\ call' = [op |-> "ResetForTesting", ret |-> Ok]
    /\ UNCHANGED <<mem, written>>

\* Programs that use the default set through the top-level functions, one
\* variable bound to a name at a time, and reset it between tests.
NextEnvVars ==
    \/ \E nm \in {NameList[1]}, value \in BOOLEAN : BoolVar(nm, value, FALSE)
    \/ \E nm \in Names, value \in Texts : SetCall(nm, value)
    \/ \E environment \in SeqsUpTo(Entries, MaxRawLen) : ParseCall(environment)
    \/ Parsed
    \/ NEnvVar
    \/ ResetForTesting
    \/ Return

SpecEnvVars == InitEnvVars /\ [][NextEnvVars]_vars

(***************************************************************************)
(* What the claims speak of.  In a step of a call, an unprimed expression  *)
(* is the state before the call and a primed one the state it leaves.      *)
(***************************************************************************)

EntryName(e) == Split(e).name
EntryValue(e) == Split(e).value

\* The entry is for a registered name.
Matches(e) == EntryName(e) \in DOMAIN formal

\* The storage of a registered name.
CellOf(m, nm) == m[formal[nm].Value]

\* What the value of a registered name makes of a text.
Converted(nm, text) == Value_Set(CellOf(mem, nm), text)

\* The entry is for a registered name whose value refuses its text.
EntryFails(e) == Matches(e) /\ ~IsNil(Converted(EntryName(e), EntryValue(e)).err)

\* The index of the first failing entry, 0 if there is none.
RECURSIVE FirstFailingFrom(_, _)
FirstFailingFrom(env, i) ==
    IF i > Len(env) THEN 0
    ELSE IF EntryFails(env[i]) THEN i
    ELSE FirstFailingFrom(env, i + 1)

FirstFailing(env) == FirstFailingFrom(env, 1)

\* The error Parse makes of the failing entry e.
EntryError(e) ==
    InvalidValue(EntryValue(e), EntryName(e), Converted(EntryName(e), EntryValue(e)).err)

\* The indices below k of the entries for the name nm.
Before(env, k, nm) == {j \in 1..(k - 1) : EntryName(env[j]) = nm}

Last(S) == CHOOSE j \in S : \A i \in S : i <= j

\* A step of Parse in which some entry fails.
ParseFails ==
    /\ AtCaller
    /\ call'.op = "Parse"
    /\ FirstFailing(call'.environment) # 0

\* The entries after the failing entry k are not applied: a name that occurs
\* only after k keeps its value and its membership in actual.
NotAppliedAfter(env, k) ==
    \A i \in (k + 1)..Len(env) :
        LET nm == EntryName(env[i])
        IN  (Matches(env[i]) /\ Before(env, k + 1, nm) = {}) =>
                /\ CellOf(mem', nm) = CellOf(mem, nm)
                /\ nm \in DOMAIN actual' <=> nm \in DOMAIN actual

\* C1 as stated: under ContinueOnError Parse returns the error of the first
\* failing entry and stops there; every matching entry before it has been
\* applied (its name is in actual and its variable holds the parsed value)
\* and no entry after it is applied.
C1_AsStated ==
    [][(errorHandling = ContinueOnError /\ ParseFails) =>
          \A env \in {call'.environment} : \A k \in {FirstFailing(env)} :
              /\ call'.ret = Returned(EntryError(env[k]))
              /\ \A i \in 1..(k - 1) :
                    LET nm == EntryName(env[i])
                    IN  Matches(env[i]) =>
                          /\ nm \in DOMAIN actual'
                          /\ CellOf(mem', nm).val =
                               Converted(nm, EntryValue(env[Last(Before(env, k, nm))])).cell.val
              /\ NotAppliedAfter(env, k)]_vars

\* C1, amended: under ContinueOnError Parse returns the error of the first
\* failing entry and stops there; every matching entry before it has been
\* applied (its name is in actual, and its variable holds the parsed value
\* of the last such entry unless the failing entry is for the same name,
\* whose variable then holds what the failed conversion stored) and no
\* entry after it is applied.
C1_FirstErrorStops ==
    [][(errorHandling = ContinueOnError /\ ParseFails) =>
          \A env \in {call'.environment} : \A k \in {FirstFailing(env)} :
          \A failed \in {EntryName(env[k])} :
              /\ call'.ret = Returned(EntryError(env[k]))
              /\ CellOf(mem', failed) = Converted(failed, EntryValue(env[k])).cell
              /\ \A i \in 1..(k - 1) :
                    LET nm == EntryName(env[i])
                    IN  Matches(env[i]) =>
                          /\ nm \in DOMAIN actual'
                          /\ nm # failed =>
                               CellOf(mem', nm).val =
                                 Converted(nm, EntryValue(env[Last(Before(env, k, nm))])).cell.val
              /\ NotAppliedAfter(env, k)]_vars

\* Parse under ContinueOnError has returned the error of a failing entry
\* that had an applied entry before it and a matching entry after it.
C1_Witness ==
    /\ call.op = "Parse"
    /\ errorHandling = ContinueOnError
    /\ call.ret.kind = "error"
    /\ Len(call.environment) = 3
    /\ EntryName(call.environment[2]) = call.ret.err.name
    /\ EntryName(call.environment[1]) \in DOMAIN actual \ {call.ret.err.name}
    /\ Matches(call.environment[3])
    /\ EntryName(call.environment[3]) \notin DOMAIN actual

\* A step in which the caller makes the call.
ParseStep == AtCaller /\ call'.op = "Parse"
SetStep == AtCaller /\ call'.op = "Set"
RegisterStep == AtCaller /\ call'.op \in {"BoolVar", "IntVar"}

\* The writer the set prints to.
Sink == IF output = "nil" THEN "os.Stderr" ELSE output

\* The entries of env for registered names, in order.
Known(env) == SelectSeq(env, Matches)

\* C2: a Parse entry whose name is not registered is silently ignored.
\* Whatever the policy, Parse ends as it would without these entries: the
\* same outcome, nothing more written, the same actual and variables, and
\* formal as it was; with only such entries it succeeds and changes
\* nothing.
C2_UnregisteredIgnored ==
    [][ParseStep =>
          \A env \in {call'.environment} : \A r \in {Parse(Known(env))} :
              /\ call'.ret = r.ret
              /\ actual' = r.evs.actual
              /\ mem' = r.evs.mem
              /\ written' = r.evs.written
              /\ formal' = formal
              /\ Known(env) = <<>> =>
                    /\ call'.ret = Ok
                    /\ written' = <<>>
                    /\ actual' = actual
                    /\ mem' = mem]_vars

\* Parse has succeeded on an entry for a name that is not registered
\* followed by an entry that was applied.
C2_Witness ==
    /\ call.op = "Parse"
    /\ call.ret = Ok
    /\ \E i, j \in DOMAIN call.environment :
          /\ i < j
          /\ ~Matches(call.environment[i])
          /\ Matches(call.environment[j])
          /\ EntryName(call.environment[j]) \in DOMAIN actual

\* C3: in every reachable state, failed calls included, every name in
\* actual is a name in formal.
C3_ActualWithinFormal == DOMAIN actual \subseteq DOMAIN formal

\* A Set of a registered variable that is not set has failed on a set that
\* has a set variable.
C3_Witness ==
    /\ call.op = "Set"
    /\ call.ret.kind = "error"
    /\ call.name \in DOMAIN formal \ DOMAIN actual
    /\ DOMAIN actual # {}

\* The names a Parse of env applies: those of the entries for registered
\* names up to the first failing one.
Applied(env) ==
    {EntryName(env[i]) :
        i \in {j \in DOMAIN env : /\ Matches(env[j])
                                  /\ FirstFailing(env) = 0 \/ j < FirstFailing(env)}}

C5_DuplicateIsFatal ==
    [][(RegisterStep /\ call'.name \in DOMAIN formal) =>
          /\ call'.ret.kind = "panic"
          /\ Len(written') = 1
          /\ written'[1].to = Sink
          /\ written'[1].msg.text =
                IF name = "" THEN <<"EnvVar redefined: ", call'.name>>
                ELSE <<name, " sets EnvVar redefined: ", call'.name>>
          /\ formal' = formal]_vars

\* A registration on a named set with a writer has panicked.
C5_Witness ==
    /\ call.op \in {"BoolVar", "IntVar"}
    /\ call.ret.kind = "panic"
    /\ name = "test"
    /\ output = "w"
    /\ Len(written) = 1

\* C6: Set returns to its caller under every policy. For a name that is not
\* registered it returns the no-such-variable error and changes nothing;
\* for a registered name whose value refuses the text it returns the
\* value's error as it is, writes nothing and leaves actual as it was.
C6_SetReturns ==
    [][SetStep =>
          \A nm \in {call'.name} :
              /\ call'.ret.kind \in {"ok", "error"}
              /\ written' = written
              /\ nm \notin DOMAIN formal =>
                    /\ call'.ret.kind = "error"
                    /\ call'.ret.err.e = "no such environment variable"
                    /\ call'.ret.err.name = nm
                    /\ actual' = actual
                    /\ mem' = mem
                    /\ formal' = formal
                    /\ parsed' = parsed
              /\ (nm \in DOMAIN formal /\ ~IsNil(Converted(nm, call'.value).err)) =>
                    /\ call'.ret.kind = "error"
                    /\ call'.ret.err = Converted(nm, call'.value).err
                    /\ call'.ret.err.e = "NumError"
                    /\ call'.ret.err.num = call'.value
                    /\ actual' = actual]_vars

\* Under ExitOnError a Set of a registered, unset variable has returned an
\* error.
C6_Witness ==
    /\ call.op = "Set"
    /\ errorHandling = ExitOnError
    /\ call.ret.kind = "error"
    /\ call.name \in DOMAIN formal \ DOMAIN actual

\* C7: when a Parse entry for a registered name fails, the error, with the
\* text and the name, is written to the sink under every policy; under
\* ExitOnError the process then exits with a non-zero status and under
\* PanicOnError a panic carries that error, and no later entry is
\* processed.
C7_WrittenThenPolicy ==
    [][ParseFails =>
          \A env \in {call'.environment} : \A k \in {FirstFailing(env)} :
              /\ Len(written') = 1
              /\ written'[1].to = Sink
              /\ written'[1].msg = EntryError(env[k])
              /\ written'[1].msg.value = EntryValue(env[k])
              /\ written'[1].msg.name = EntryName(env[k])
              /\ errorHandling = ExitOnError =>
                    /\ call'.ret.kind = "exit"
                    /\ call'.ret.code # 0
              /\ errorHandling = PanicOnError =>
                    /\ call'.ret.kind = "panic"
                    /\ call'.ret.v = EntryError(env[k])
              /\ errorHandling \in {ExitOnError, PanicOnError} =>
                    NotAppliedAfter(env, k)]_vars

\* Parse has exited on a failing entry that is followed by an entry for a
\* registered name that is not set.
C7_Witness ==
    /\ call.op = "Parse"
    /\ call.ret.kind = "exit"
    /\ Len(written) = 1
    /\ \E k, j \in DOMAIN call.environment :
          /\ k < j
          /\ EntryName(call.environment[k]) = written[1].msg.name
          /\ Matches(call.environment[j])
          /\ EntryName(call.environment[j]) \notin DOMAIN actual

\* C8: parsed is false for a new set; a Parse makes it true, whatever its
\* input and outcome; once true it stays true; no call but Parse changes
\* it; and Parsed() reports it.
C8_ParsedFlag ==
    /\ parsed = FALSE
    /\ [][/\ ParseStep => parsed'
          /\ parsed => parsed'
          /\ parsed' # parsed => ParseStep
          /\ (AtCaller /\ call'.op = "Parsed") => call'.parsed = parsed]_vars

\* A first Parse has ended in a panic and the set is parsed.
C8_Witness ==
    /\ call.op = "Parse"
    /\ call.ret.kind = "panic"
    /\ parsed

\* a < b in lexicographic order: a is a proper prefix of b, or the first
\* byte in which they differ is smaller in a.
LexLess(a, b) ==
    \E k \in 1..Len(b) :
        /\ \A i \in 1..(k - 1) : i <= Len(a) /\ a[i] = b[i]
        /\ k > Len(a) \/ Ord(a[k]) < Ord(b[k])

\* C9: VisitAll yields each registered name once and no other name, and
\* VisitAll and Visit yield the records in strictly ascending lexicographic
\* order of name.
C9_VisitSorted ==
    /\ call.op = "VisitAll" =>
          {call.seen[i].Name : i \in DOMAIN call.seen} = DOMAIN formal
    /\ call.op \in {"Visit", "VisitAll"} =>
          \A i, j \in DOMAIN call.seen :
              i < j => LexLess(call.seen[i].Name, call.seen[j].Name)

\* VisitAll has yielded the four names of a set, two of which are set.
C9_Witness ==
    /\ call.op = "VisitAll"
    /\ Len(call.seen) = 4
    /\ Cardinality(DOMAIN actual) = 2

\* What a text a value accepts stands for: a boolean for a bool, the number
\* of a decimal literal for an int.
RECURSIVE DecimalOf(_)
DecimalOf(text) ==
    IF text = <<>> THEN 0
    ELSE 10 * DecimalOf(SubSeq(text, 1, Len(text) - 1)) + DigitVal(text[Len(text)])

Denotes(kind, text) ==
    IF kind = "bool"
    THEN text \in {<<"1">>, <<"t">>, <<"T">>, <<"t", "r", "u", "e">>,
                   <<"T", "R", "U", "E">>, <<"T", "r", "u", "e">>}
    ELSE DecimalOf(text)

\* The indices of the entries of env for the name nm.
EntriesFor(env, nm) == {j \in DOMAIN env : EntryName(env[j]) = nm}

\* C10: a typed registration writes the default into the variable bound to
\* the name, whatever it held; after a successful Set, or a successful
\* Parse with entries for the name, the variable holds the parsed value;
\* and a variable keeps its content through every Parse without an entry
\* for its name and every call that is not a Set of its name.
C10_SlotHoldsValue ==
    [][/\ RegisterStep =>
            /\ call'.cell.val = call'.value
            /\ call'.ret.kind = "ok" =>
                  mem'[formal'[call'.name].Value].val = call'.value
            /\ \A nm \in DOMAIN formal : CellOf(mem', nm) = CellOf(mem, nm)
       /\ SetStep =>
            /\ call'.ret.kind = "ok" =>
                  CellOf(mem', call'.name).val =
                      Denotes(CellOf(mem, call'.name).kind, call'.value)
            /\ \A nm \in DOMAIN formal \ {call'.name} : CellOf(mem', nm) = CellOf(mem, nm)
       /\ ParseStep =>
            \A env \in {call'.environment} : \A nm \in DOMAIN formal :
                IF EntriesFor(env, nm) = {}
                THEN CellOf(mem', nm) = CellOf(mem, nm)
                ELSE call'.ret.kind = "ok" =>
                        CellOf(mem', nm).val =
                            Denotes(CellOf(mem, nm).kind,
                                    EntryValue(env[Last(EntriesFor(env, nm))]))
       /\ ~(RegisterStep \/ SetStep \/ ParseStep) => mem' = mem]_vars

\* A Parse has succeeded and applied an entry while an int variable without
\* an entry holds its default.
C10_Witness ==
    /\ call.op = "Parse"
    /\ call.ret = Ok
    /\ \E nm \in DOMAIN formal \ DOMAIN actual, other \in DOMAIN actual :
          /\ EntriesFor(call.environment, nm) = {}
          /\ EntriesFor(call.environment, other) # {}
          /\ CellOf(mem, nm).kind = "int"
          /\ CellOf(mem, nm).val = 5

\* The number of entries of env that Parse reaches: all of them, or those
\* up to the first failing one.
Reached(env) == IF FirstFailing(env) = 0 THEN Len(env) ELSE FirstFailing(env)

\* The texts of the entries for nm among the first n of env, in order.
RECURSIVE TextsFor(_, _, _)
TextsFor(env, n, nm) ==
    IF n = 0 THEN <<>>
    ELSE IF EntryName(env[n]) = nm
    THEN Append(TextsFor(env, n - 1, nm), EntryValue(env[n]))
    ELSE TextsFor(env, n - 1, nm)

\* How often a visit of the map m yields the name nm.
Occurs(m, nm) == Cardinality({i \in DOMAIN sortEnvVars(m) : sortEnvVars(m)[i].Name = nm})

\* C11: Parse applies the entries in input order, one Set per entry whose
\* name is registered.  When a name is repeated, a user-defined value that
\* accumulates its texts ends with what it held followed by the text of
\* every occurrence, in order; a built-in variable ends as the Set of the
\* last occurrence leaves it; a variable without an entry is untouched; and
\* a visit of actual yields the name once (not at all when it was not set
\* and no entry for it succeeded).
C11_InOrder ==
    [][ParseStep =>
          \A env \in {call'.environment} : \A nm \in DOMAIN formal :
              \A ts \in {TextsFor(env, Reached(env), nm)} :
                  /\ CellOf(mem, nm).kind = "user" =>
                        CellOf(mem', nm).val = CellOf(mem, nm).val \o ts
                  /\ (CellOf(mem, nm).kind # "user" /\ ts # <<>>) =>
                        CellOf(mem', nm) = Converted(nm, ts[Len(ts)]).cell
                  /\ ts = <<>> => CellOf(mem', nm) = CellOf(mem, nm)
                  /\ Occurs(actual', nm) =
                        IF nm \in DOMAIN actual \/ nm \in Applied(env) THEN 1 ELSE 0]_vars

\* Parse has applied two entries with different texts for the name of a
\* user-defined value, which holds both in input order, and the name is in
\* actual.
C11_Witness ==
    /\ call.op = "Parse"
    /\ call.environment = << <<"A", "=", "b", "=", "c">>, <<"A", "=">> >>
    /\ <<"A">> \in DOMAIN actual
    /\ CellOf(mem, <<"A">>).kind = "user"
    /\ CellOf(mem, <<"A">>).val = << <<"b", "=", "c">>, <<>> >>

IntKinds == {"int", "int64", "uint", "uint64"}

\* A decimal numeral without a sign and without leading zeros.
IsDecimal(t) ==
    /\ t # <<>>
    /\ \A i \in DOMAIN t : t[i] \in {"0", "1", "2", "3", "4", "5", "6", "7", "8", "9"}
    /\ t[1] # "0" \/ Len(t) = 1

\* A decimal literal: a numeral, or a minus sign and a numeral.
IsLiteral(t) == IsDecimal(t) \/ (t # <<>> /\ t[1] = "-" /\ IsDecimal(Tail(t)))

\* The numeral a is less than the numeral b.
TextLess(a, b) ==
    \/ Len(a) < Len(b)
    \/ /\ Len(a) = Len(b)
       /\ \E k \in DOMAIN a :
              /\ \A i \in 1..(k - 1) : a[i] = b[i]
              /\ DigitVal(a[k]) < DigitVal(b[k])

\* The greatest value of each integer type, int and uint being 32 bits
\* wide, and the magnitude of its least value.
MaxText(kind) ==
    CASE kind = "int"    -> <<"2", "1", "4", "7", "4", "8", "3", "6", "4", "7">>
      [] kind = "uint"   -> <<"4", "2", "9", "4", "9", "6", "7", "2", "9", "5">>
      [] kind = "int64"  -> <<"9", "2", "2", "3", "3", "7", "2", "0", "3", "6", "8", "5", "4", "7", "7", "5", "8", "0", "7">>
      [] kind = "uint64" -> <<"1", "8", "4", "4", "6", "7", "4", "4", "0", "7", "3", "7", "0", "9", "5", "5", "1", "6", "1", "5">>

MinText(kind) ==
    CASE kind = "int"    -> <<"2", "1", "4", "7", "4", "8", "3", "6", "4", "8">>
      [] kind = "int64"  -> <<"9", "2", "2", "3", "3", "7", "2", "0", "3", "6", "8", "5", "4", "7", "7", "5", "8", "0", "8">>
      [] kind \in {"uint", "uint64"} -> <<"0">>

\* The literal t is within the range of the type.
InRange(kind, t) ==
    IF t[1] = "-"
    THEN kind \in {"int", "int64"} /\ ~TextLess(MinText(kind), Tail(t))
    ELSE ~TextLess(MaxText(kind), t)

\* The bound of the type nearest to the out-of-range literal t.
NearestBound(kind, t) == IF t[1] = "-" THEN <<"-">> \o MinText(kind) ELSE MaxText(kind)

\* The digits of a numeral, zero having none.
Mag(t) == IF t = <<"0">> THEN <<>> ELSE [i \in DOMAIN t |-> DigitVal(t[i])]

\* The variable c of an integer type holds the number the literal t
\* denotes.
Holds(c, t) ==
    CASE c.kind = "int" /\ t[1] # "-" -> c.val = DecimalOf(t)
      [] c.kind = "int" /\ t[1] = "-" ->
            c.val + 10 * DecimalOf(SubSeq(t, 2, Len(t) - 1)) = 0 - DigitVal(t[Len(t)])
      [] c.kind = "int64" ->
            c.val = [neg |-> t[1] = "-", mag |-> Mag(IF t[1] = "-" THEN Tail(t) ELSE t)]
      [] c.kind \in {"uint", "uint64"} -> c.val = Mag(t)

\* C12: a decimal literal outside the range of a variable's integer type
\* makes Set fail: nothing truncated or wrapped is stored (the variable is
\* left at the bound of its type nearest to the literal), the error is a
\* range error (a syntax error for a negative literal and an unsigned
\* type) and the name is not added to actual.  int and uint are 32 bits
\* wide, int64 and uint64 are 64 bits wide.  A literal within the range is
\* stored exactly.  A Parse of one entry for the variable succeeds exactly
\* when the literal is within the range.
C12_OutOfRangeFails ==
    [][/\ (SetStep /\ call'.name \in DOMAIN formal /\ IsLiteral(call'.value)
              /\ CellOf(mem, call'.name).kind \in IntKinds) =>
             \A nm \in {call'.name} : \A t \in {call'.value} :
                 \A kind \in {CellOf(mem, nm).kind} :
                     /\ InRange(kind, t) =>
                           /\ call'.ret = Ok
                           /\ Holds(CellOf(mem', nm), t)
                           /\ nm \in DOMAIN actual'
                     /\ ~InRange(kind, t) =>
                           /\ call'.ret.kind = "error"
                           /\ call'.ret.err.e = "NumError"
                           /\ call'.ret.err.num = t
                           /\ nm \in DOMAIN actual' <=> nm \in DOMAIN actual
                           /\ IF t[1] = "-" /\ kind \in {"uint", "uint64"}
                              THEN call'.ret.err.err = "invalid syntax"
                              ELSE /\ call'.ret.err.err = "value out of range"
                                   /\ Holds(CellOf(mem', nm), NearestBound(kind, t))
       /\ (ParseStep /\ Matches(call'.environment[1])
              /\ IsLiteral(EntryValue(call'.environment[1]))
              /\ CellOf(mem, EntryName(call'.environment[1])).kind \in IntKinds) =>
             \A nm \in {EntryName(call'.environment[1])} :
                 \A t \in {EntryValue(call'.environment[1])} :
                     /\ call'.ret = Ok <=> InRange(CellOf(mem, nm).kind, t)
                     /\ CellOf(mem', nm) = Converted(nm, t).cell]_vars

\* With int 32 bits wide, Set has refused 2147483648 for an int, which
\* holds 2147483647 and is not in actual.
C12_Witness ==
    /\ call.op = "Set"
    /\ call.value = <<"2", "1", "4", "7", "4", "8", "3", "6", "4", "8">>
    /\ call.name \in DOMAIN formal
    /\ call.ret.kind = "error"
    /\ call.ret.err.err = "value out of range"
    /\ call.name \notin DOMAIN actual
    /\ CellOf(mem, call.name).kind = "int"
    /\ CellOf(mem, call.name).val = 2147483647

\* The tokens of the package documentation: 1, t, T, true, TRUE, True and
\* 0, f, F, false, FALSE, False.
TrueTokens ==
    { <<"1">>, <<"t">>, <<"T">>, <<"t", "r", "u", "e">>, <<"T", "R", "U", "E">>,
      <<"T", "r", "u", "e">> }

FalseTokens ==
    { <<"0">>, <<"f">>, <<"F">>, <<"f", "a", "l", "s", "e">>,
      <<"F", "A", "L", "S", "E">>, <<"F", "a", "l", "s", "e">> }

\* What C13 says of the text t handed to the bool variable of nm, in a
\* step that ends with ret.
BoolOutcome(nm, t, ret) ==
    /\ t \in TrueTokens =>
          /\ ret = Ok
          /\ CellOf(mem', nm).val = TRUE
          /\ nm \in DOMAIN actual'
    /\ t \in FalseTokens =>
          /\ ret = Ok
          /\ CellOf(mem', nm).val = FALSE
          /\ nm \in DOMAIN actual'
    /\ t \notin TrueTokens \cup FalseTokens =>
          /\ ret # Ok
          /\ nm \in DOMAIN actual' <=> nm \in DOMAIN actual

\* C13: a bool variable accepts exactly twelve tokens: 1, t, T, true, TRUE
\* and True give true, 0, f, F, false, FALSE and False give false.  Every
\* other text, the empty text and other capitalisations included, makes
\* Set return a syntax error, and makes a Parse entry fail, without adding
\* the name to actual.
C13_TwelveTokens ==
    /\ Cardinality(TrueTokens \cup FalseTokens) = 12
    /\ [][/\ (SetStep /\ call'.name \in DOMAIN formal
                 /\ CellOf(mem, call'.name).kind = "bool") =>
                /\ BoolOutcome(call'.name, call'.value, call'.ret)
                /\ call'.ret # Ok =>
                      /\ call'.ret.kind = "error"
                      /\ call'.ret.err.e = "NumError"
                      /\ call'.ret.err.err = "invalid syntax"
          /\ (ParseStep /\ Matches(call'.environment[1])
                 /\ CellOf(mem, EntryName(call'.environment[1])).kind = "bool") =>
                /\ BoolOutcome(EntryName(call'.environment[1]),
                               EntryValue(call'.environment[1]), call'.ret)
                /\ call'.ret # Ok =>
                      /\ written' # <<>>
                      /\ call'.ret.kind =
                            CASE errorHandling = ContinueOnError -> "error"
                              [] errorHandling = ExitOnError -> "exit"
                              [] errorHandling = PanicOnError -> "panic"]_vars

\* Set has refused the text TrUe for a bool variable, and in another case
\* the empty text.
C13_Witness ==
    /\ call.op = "Set"
    /\ call.value \in {<<"T", "r", "U", "e">>, <<>>}
    /\ call.name \in DOMAIN formal
    /\ CellOf(mem, call.name).kind = "bool"
    /\ call.ret.kind = "error"
    /\ call.ret.err.err = "invalid syntax"

ResetStep == AtCaller /\ call'.op = "ResetForTesting"

\* C14: the default set starts with ExitOnError, under which a failing
\* Parse exits.  ResetForTesting replaces it with a fresh set under
\* ContinueOnError: after it no variable is registered and none is set (the
\* visits yield nothing), Parsed() is false, a name registered before the
\* reset is registered again without the duplicate-definition message or
\* panic and bound to the new variable, and a failing Parse returns its
\* error instead of exiting.
C14_ResetIsFresh ==
    /\ errorHandling = ExitOnError
    /\ [][/\ ResetStep =>
                /\ call'.ret = Ok
                /\ errorHandling' = ContinueOnError
                /\ formal' = EmptyMap
                /\ actual' = EmptyMap
                /\ sortEnvVars(formal') = <<>>
                /\ sortEnvVars(actual') = <<>>
                /\ parsed' = FALSE
          /\ (AtCaller /\ call'.op = "Parsed") => call'.parsed = parsed
          /\ (AtCaller /\ call'.op = "NEnvVar") => call'.n = Cardinality(DOMAIN actual)
          /\ (AtCaller /\ call'.op = "BoolVar" /\ call'.name \notin DOMAIN formal) =>
                /\ call'.ret = Ok
                /\ written' = written
                /\ call'.name \in DOMAIN formal'
                /\ mem'[formal'[call'.name].Value].val = call'.value
          /\ ParseFails =>
                /\ errorHandling = ExitOnError => call'.ret = Exited(2)
                /\ errorHandling = ContinueOnError =>
                      call'.ret = Returned(EntryError(
                          call'.environment[FirstFailing(call'.environment)]))]_vars

\* After a reset, a name that was registered before it is registered
\* again, bound to another variable, and a failing Parse has returned its
\* error.
C14_Witness ==
    /\ errorHandling = ContinueOnError
    /\ call.op = "Parse"
    /\ call.ret.kind = "error"
    /\ <<"A">> \in DOMAIN formal
    /\ formal[<<"A">>].Value = Spare
    /\ SlotOf(<<"A">>) \in DOMAIN mem
    /\ parsed

\* The positions of e, counted from 1, that hold the separator and are not
\* the first; the least of them when there is one.
SepAt(e) == {k \in 2..Len(e) : e[k] = "="}

FirstSep(e) == CHOOSE k \in SepAt(e) : \A j \in SepAt(e) : k <= j

BeforeSep(e) == SubSeq(e, 1, FirstSep(e) - 1)

AfterSep(e) == SubSeq(e, FirstSep(e) + 1, Len(e))

\* The entries of env that have a separator with the name nm before it.
SplitFor(env, nm) == {j \in DOMAIN env : SepAt(env[j]) # {} /\ BeforeSep(env[j]) = nm}

\* C15: Parse splits an entry at the first = that is not its first byte:
\* the name is what is before it and the value everything after it, which
\* may be empty or hold more = signs; an = in first place is part of the
\* name.  So after a Parse that succeeds, a registered name that is not
\* empty and has such entries is in actual and its variable is as the Set
\* of what follows the separator of the last of them leaves it (a
\* user-defined value has grown by one text per entry, the last being that
\* text); without such an entry the variable and the name's membership in
\* actual are untouched.
C15_SplitAtFirstSeparator ==
    [][(ParseStep /\ call'.ret = Ok) =>
          \A env \in {call'.environment} : \A nm \in DOMAIN formal \ {<<>>} :
              \A idx \in {SplitFor(env, nm)} :
                  /\ idx = {} =>
                        /\ CellOf(mem', nm) = CellOf(mem, nm)
                        /\ nm \in DOMAIN actual' <=> nm \in DOMAIN actual
                  /\ idx # {} =>
                        /\ nm \in DOMAIN actual'
                        /\ CellOf(mem, nm).kind # "user" =>
                              CellOf(mem', nm) =
                                  Value_Set(CellOf(mem, nm), AfterSep(env[Last(idx)])).cell
                        /\ CellOf(mem, nm).kind = "user" =>
                              /\ Len(CellOf(mem', nm).val) =
                                     Len(CellOf(mem, nm).val) + Cardinality(idx)
                              /\ CellOf(mem', nm).val[Len(CellOf(mem', nm).val)] =
                                     AfterSep(env[Last(idx)])]_vars

\* Parse has applied A=b=c to the string registered as A, which holds b=c,
\* and =A=1 to the string registered as =A, which holds 1.
C15_Witness ==
    /\ call.op = "Parse"
    /\ call.ret = Ok
    /\ call.environment = << <<"A", "=", "b", "=", "c">>, <<"=", "A", "=", "1">> >>
    /\ {<<"A">>, <<"=", "A">>} \subseteq DOMAIN actual
    /\ CellOf(mem, <<"A">>) = [val |-> <<"b", "=", "c">>, kind |-> "string"]
    /\ CellOf(mem, <<"=", "A">>) = [val |-> <<"1">>, kind |-> "string"]

\* C16 as stated: whatever names are registered, entries without an = past
\* their first byte (the empty entry, a bare name, an entry whose only = is
\* its first byte) are silently ignored: a Parse of such entries alone
\* returns nil, writes nothing, and leaves every variable and actual as
\* they were.
C16_AsStated ==
    [][(ParseStep /\ \A j \in DOMAIN call'.environment : SepAt(call'.environment[j]) = {}) =>
          /\ call'.ret = Ok
          /\ written' = written
          /\ mem' = mem
          /\ actual' = actual]_vars

\* A Parse of the bare name A alone has failed: the bool registered under
\* the empty name was handed the empty text.
C16_Witness ==
    /\ call.op = "Parse"
    /\ call.environment = << <<"A">> >>
    /\ call.ret.kind \in {"error", "exit", "panic"}
    /\ <<>> \in DOMAIN formal
    /\ CellOf(mem, <<>>) = [val |-> FALSE, kind |-> "bool"]
    /\ written # <<>>

\* C17: formal and actual only grow.  A name in formal stays there, bound
\* to the same record, through every call, a rejected duplicate
\* registration and a failed Set or Parse included; a name in actual stays
\* there with its record; and the record actual holds under a name is the
\* one formal holds under it.
C17_MapsOnlyGrow ==
    /\ \A nm \in DOMAIN actual : nm \in DOMAIN formal /\ actual[nm] = formal[nm]
    /\ [][/\ \A nm \in DOMAIN formal : nm \in DOMAIN formal' /\ formal'[nm] = formal[nm]
          /\ \A nm \in DOMAIN actual : nm \in DOMAIN actual' /\ actual'[nm] = actual[nm]
          /\ \A nm \in DOMAIN actual' : nm \in DOMAIN formal' /\ actual'[nm] = formal'[nm]]_vars

\* A duplicate registration of a name that is set has been rejected: both
\* names are still in formal, and the set name is in actual with formal's
\* record.
C17_Witness ==
    /\ call.op \in {"BoolVar", "IntVar"}
    /\ call.ret.kind = "panic"
    /\ DOMAIN formal = Names
    /\ DOMAIN actual = {call.name}
    /\ actual[call.name] = formal[call.name]

\* The text is no integer literal for the type: it is empty or holds a
\* byte that is neither a decimal digit nor the sign of a signed type in
\* first place before more bytes.
Malformed(kind, t) ==
    \/ t = <<>>
    \/ \E i \in DOMAIN t :
           /\ t[i] \notin {"0", "1", "2", "3", "4", "5", "6", "7", "8", "9"}
           /\ ~(i = 1 /\ t[i] = "-" /\ Len(t) > 1 /\ kind \in {"int", "int64"})

\* The zero of a built-in type as the model keeps it.
ZeroOf(kind) ==
    CASE kind = "bool" -> [val |-> FALSE, kind |-> kind]
      [] kind = "int" -> [val |-> 0, kind |-> kind]
      [] kind = "int64" -> [val |-> [neg |-> FALSE, mag |-> <<>>], kind |-> kind]
      [] kind \in {"uint", "uint64"} -> [val |-> <<>>, kind |-> kind]

\* What C18 says of a step in which the text t was refused by the bool or
\* integer variable of nm; before tells whether the name was in actual
\* when the text was handed to it.
Overwritten(nm, t, before) ==
    /\ (CellOf(mem, nm).kind = "bool" \/ Malformed(CellOf(mem, nm).kind, t)) =>
          CellOf(mem', nm) = ZeroOf(CellOf(mem, nm).kind)
    /\ nm \in DOMAIN actual' <=> before

\* C18: a failed Set, or a failed Parse entry, on a built-in bool or
\* integer variable overwrites the variable with the value the parser
\* returned: false for a text that is no boolean token, 0 for a malformed
\* integer literal, whatever the variable held (its default or an earlier
\* parsed value); the name is in actual afterwards exactly if it was when
\* the text was handed over.  A text that is no boolean token, or is
\* malformed for the integer type, does fail.
C18_FailureOverwrites ==
    [][/\ (SetStep /\ call'.name \in DOMAIN formal) =>
             \A nm \in {call'.name} : \A t \in {call'.value} :
                 /\ call'.ret # Ok => Overwritten(nm, t, nm \in DOMAIN actual)
                 /\ (CellOf(mem, nm).kind \in IntKinds /\ Malformed(CellOf(mem, nm).kind, t)) =>
                       call'.ret # Ok
                 /\ (CellOf(mem, nm).kind = "bool" /\ t \notin TrueTokens \cup FalseTokens) =>
                       call'.ret # Ok
       /\ ParseFails =>
             \A env \in {call'.environment} : \A k \in {FirstFailing(call'.environment)} :
                 /\ call'.ret # Ok
                 /\ Overwritten(EntryName(env[k]), EntryValue(env[k]),
                                EntryName(env[k]) \in DOMAIN actual
                                    \/ Before(env, k, EntryName(env[k])) # {})]_vars

\* A Set of a malformed literal has failed on an int variable that was set
\* before: the variable holds 0 and the name is still in actual.
C18_Witness ==
    /\ call.op = "Set"
    /\ call.name \in DOMAIN actual
    /\ call.ret.kind = "error"
    /\ call.ret.err.err = "invalid syntax"
    /\ CellOf(mem, call.name).kind = "int"
    /\ CellOf(mem, call.name).val = 0

====
